---- MODULE Spec2Model ----
(***************************************************************************)
(* Model of Module_4-Analytics_Engineering/quick_ingest_fhv.py: the        *)
(* month-by-month download / convert batch (download_and_convert_fhv_files)*)
(* over the files of data/fhv, and the load of the valid Parquet files     *)
(* into the DuckDB table prod.fhv_tripdata (load_parquets_into_duckdb).    *)
(*                                                                         *)
(* The remote server, the file system and DuckDB are the environment: a    *)
(* download may fail before or after the destination file was opened, a    *)
(* conversion may fail with or without a partial output file, and every    *)
(* unlink may raise (the code wraps each one in try/except and ignores the *)
(* exception).                                                             *)
(***************************************************************************)
EXTENDS Integers, Sequences, FiniteSets, TLC

\* ---------------------------------------------------------------- bounds
\* Number of calendar months the calls may range over.
MaxUnits == 2
\* Number of years after 2019 the arguments of month_range may name.
YearSpan == 1

\* ------------------------------------------------------- program constants
\* The size a Parquet file must exceed to count as converted.
MinSize == 1024

\* ------------------------------------------------------------- periods
\* The i-th calendar month of the modelled window, which starts at
\* (2019, 12) and so crosses a year boundary.
PeriodAt(i) ==
    LET n == (2019 * 12 + 11) + i
    IN  <<n \div 12, (n % 12) + 1>>

AllPeriods == { PeriodAt(i) : i \in 0..(MaxUnits - 1) }

\* The call arguments: every start in the window, every end in the window
\* and the month before it (an end before every start: the empty range).
StartArgs == AllPeriods
EndArgs == { PeriodAt(i) : i \in (-1)..(MaxUnits - 1) }

\* (y1, m1) <= (y2, m2)
PeriodLeq(p, q) == (p[1] < q[1]) \/ (p[1] = q[1] /\ p[2] <= q[2])

\* month_range: the sequence of the (y, m) the generator yields.
RECURSIVE month_range(_, _, _, _)
month_range(y, m, end_year, end_month) ==
    IF (y < end_year) \/ (y = end_year /\ m <= end_month)
    THEN <<<<y, m>>>> \o
         (IF m + 1 = 13
          THEN month_range(y + 1, 1, end_year, end_month)
          ELSE month_range(y, m + 1, end_year, end_month))
    ELSE <<>>

\* --------------------------------------------------------------- files
NoFile == [size |-> -1, cols |-> {}, rows |-> <<>>, intact |-> FALSE]

\* The sizes a written file may have: at the threshold and just above it.
Sizes == {MinSize, MinSize + 1}

\* The columns of the remote file of a period: the files of the even
\* months have the columns a and b, those of the odd months a and c.
Cols(p) == IF p[2] % 2 = 0 THEN {"a", "b"} ELSE {"a", "c"}

\* The value every column of the one row of period p's file holds.
Val(p) == p[1] * 100 + p[2]

\* The Parquet file a successful COPY ... TO writes for period p.
CompleteFile(p, s) ==
    [size |-> s, cols |-> Cols(p), rows |-> <<[c \in Cols(p) |-> Val(p)]>>,
     intact |-> TRUE]

\* What a failed COPY ... TO may leave behind.
PartialFile(s) == [size |-> s, cols |-> {}, rows |-> <<>>, intact |-> FALSE]

\* parquet_filepath / csv_gz_filename of a period.
ParquetPath(p) == <<"parquet", p[1], p[2]>>
CsvGzName(p) == <<"csv.gz", p[1], p[2]>>

Exists(f) == f # NoFile

\* The three artifact states of the specification.
IsValid(f) == Exists(f) /\ f.size > 1024
IsBroken(f) == Exists(f) /\ f.size <= 1024
IsAbsent(f) == ~Exists(f)

\* Line 88: parquet_filepath.exists() and st_size > 1024.
\* (Variant with the threshold one byte too high.)
ShouldSkipMutant(f) == Exists(f) /\ f.size > MinSize + 1
ShouldSkip(f) == Exists(f) /\ f.size > MinSize

\* Line 94: parquet_filepath.exists() and st_size <= 1024.
IsTiny(f) == Exists(f) /\ f.size <= MinSize

\* Line 155: the filter of the load, st_size > 1024.
GoodFile(f) == Exists(f) /\ f.size > MinSize

\* ------------------------------------------------------------ database
Null == -1
NoTable == [cols |-> {}, rows |-> <<>>, present |-> FALSE]
\* A table left by an earlier load of other files.
OldTable == [cols |-> {"a", "z"}, rows |-> <<[c \in {"a", "z"} |-> 7]>>,
             present |-> TRUE]

VARIABLES
    artifact,    \* period -> the .parquet file of data/fhv
    staging,     \* period -> the .csv.gz file of data/fhv exists
    db,          \* [schema: prod exists, table: prod.fhv_tripdata]
    pc,          \* position of the program
    periods,     \* the periods month_range yields for the running call
    idx,         \* index in periods of the unit being processed
    successes,   \* successes of the running (or last) call
    failures,    \* failures of the running (or last) call
    result,      \* how the last batch call ended
    loadStatus,  \* how the last load call ended
    log,         \* the calls of the running (or last) batch call, in order
    cleanup,     \* the current unit's deletions that raised or removed a partial file
    runs,        \* 0: no invocation of the script so far, 1: one, 2: more
    prev,        \* the previous batch call: its range, result and files
    gen,         \* a month_range generator: its arguments, y, m and yields
    wh,          \* an invocation of a warehouse script (ny-taxi-ingest.py)
    ms           \* a call of month_starts: its arguments, current, results

vars == <<artifact, staging, db, pc, periods, idx, successes, failures,
          result, loadStatus, log, cleanup, runs, prev, gen, wh, ms>>

\* What the steps of quick_ingest_fhv.py's batch and load leave alone.
aside == <<gen, wh, ms>>

\* No generator, no warehouse script, no call of month_starts.
NoGen == [sy |-> 0, sm |-> 0, ey |-> 0, em |-> 0, y |-> 0, m |-> 0,
          out |-> <<>>, done |-> TRUE]
NoWh == [script |-> "none", mode |-> "none", taxi |-> "none", year |-> 0,
         start_month |-> 0, end_month |-> 0, pc |-> "none", calls |-> <<>>]
NoMs == [start |-> <<>>, end |-> <<>>, current |-> <<>>, results |-> <<>>,
         pc |-> "none"]

NoPrev == [periods |-> <<>>, successes |-> <<>>, valid |-> {}, set |-> FALSE]

InitBatch ==
    /\ artifact = [p \in AllPeriods |-> NoFile]
    /\ staging = [p \in AllPeriods |-> FALSE]
    /\ db \in {[schema |-> FALSE, table |-> NoTable],
               [schema |-> TRUE, table |-> OldTable]}
    /\ pc = "idle"
    /\ periods = <<>>
    /\ idx = 1
    /\ successes = <<>>
    /\ failures = <<>>
    /\ result = "none"
    /\ loadStatus = "none"
    /\ log = <<>>
    /\ cleanup = {}
    /\ runs = 0
    /\ prev = NoPrev

Init ==
    /\ InitBatch
    /\ gen = NoGen
    /\ wh = NoWh
    /\ ms = NoMs

batchVars == <<artifact, staging, db, pc, periods, idx, successes, failures,
               result, loadStatus, log, cleanup, runs, prev>>

Cur == periods[idx]

Ev(op, p) == <<op, p[1], p[2]>>

\* ------------------------------------------------- the batch, per step
\* Lines 176-179, 74-80: the script starts and calls the batch; the loop
\* then walks the periods ps that month_range yields.
StartBatch(ps) ==
    /\ pc = "idle"
    /\ periods' = ps
    /\ idx' = 1
    /\ successes' = <<>>
    /\ failures' = <<>>
    /\ result' = "running"
    /\ loadStatus' = "none"
    /\ log' = <<>>
    /\ cleanup' = {}
    /\ pc' = "loop"
    /\ UNCHANGED <<artifact, staging, db, aside>>

\* An invocation of the script.  (The script passes no arguments and so
\* takes the default range; the range is an input here.)
CallBatch(s, e) ==
    /\ StartBatch(month_range(s[1], s[2], e[1], e[2]))
    /\ UNCHANGED <<runs, prev, aside>>

\* Lines 87-91: the Parquet file is there and large: success, next period.
\* (Variant without the append of line 90.)
\* (Variant that downloads and converts the period again.)
SkipValidAgainMutant ==
    /\ pc = "loop"
    /\ idx <= Len(periods)
    /\ ShouldSkip(artifact[Cur])
    /\ cleanup' = {}
    /\ pc' = "fetch"
    /\ UNCHANGED <<artifact, staging, db, periods, idx, successes, failures,
                   result, loadStatus, log, runs, prev, aside>>

SkipValidMutant ==
    /\ pc = "loop"
    /\ idx <= Len(periods)
    /\ ShouldSkip(artifact[Cur])
    /\ log' = Append(log, Ev("skip", Cur))
    /\ cleanup' = {}
    /\ idx' = idx + 1
    /\ UNCHANGED <<artifact, staging, db, pc, periods, successes, failures,
                   result, loadStatus, runs, prev, aside>>

SkipValid ==
    /\ pc = "loop"
    /\ idx <= Len(periods)
    /\ ShouldSkip(artifact[Cur])
    /\ successes' = Append(successes, ParquetPath(Cur))
    /\ log' = Append(log, Ev("skip", Cur))
    /\ cleanup' = {}
    /\ idx' = idx + 1
    /\ UNCHANGED <<artifact, staging, db, pc, periods, failures,
                   result, loadStatus, runs, prev, aside>>

\* Lines 93-99: a tiny Parquet file is unlinked; a failing unlink is ignored.
\* (Variant that takes the tiny file as converted.)
PurgeBrokenMutant(ok) ==
    /\ pc = "loop"
    /\ idx <= Len(periods)
    /\ ~ShouldSkip(artifact[Cur])
    /\ IsTiny(artifact[Cur])
    /\ ok
    /\ successes' = Append(successes, ParquetPath(Cur))
    /\ log' = Append(log, Ev("skip", Cur))
    /\ cleanup' = {}
    /\ idx' = idx + 1
    /\ UNCHANGED <<artifact, staging, db, pc, periods, failures,
                   result, loadStatus, runs, prev, aside>>

PurgeBroken(ok) ==
    /\ pc = "loop"
    /\ idx <= Len(periods)
    /\ ~ShouldSkip(artifact[Cur])
    /\ IsTiny(artifact[Cur])
    /\ artifact' = IF ok THEN [artifact EXCEPT ![Cur] = NoFile] ELSE artifact
    /\ log' = Append(log, Ev("purge", Cur))
    /\ cleanup' = IF ok THEN {} ELSE {"purge_failed"}
    /\ pc' = "fetch"
    /\ UNCHANGED <<staging, db, periods, idx, successes, failures,
                   result, loadStatus, runs, prev, aside>>

\* Lines 88, 94: no Parquet file at all: straight to the download.
NoPurge ==
    /\ pc = "loop"
    /\ idx <= Len(periods)
    /\ ~ShouldSkip(artifact[Cur])
    /\ ~IsTiny(artifact[Cur])
    /\ cleanup' = {}
    /\ pc' = "fetch"
    /\ UNCHANGED <<artifact, staging, db, periods, idx, successes, failures,
                   result, loadStatus, log, runs, prev, aside>>

\* Lines 105, 21-28: download_file returns; the .csv.gz file is written.
DownloadOk ==
    /\ pc = "fetch"
    /\ staging' = [staging EXCEPT ![Cur] = TRUE]
    /\ log' = Append(log, Ev("fetch", Cur))
    /\ pc' = "convert"
    /\ UNCHANGED <<artifact, db, periods, idx, successes, failures,
                   result, loadStatus, cleanup, runs, prev, aside>>

\* Lines 105, 21-28: download_file raises, before open() (the .csv.gz file
\* is as it was) or after it (a partial file is there).
DownloadFail(opened) ==
    /\ pc = "fetch"
    /\ staging' = IF opened THEN [staging EXCEPT ![Cur] = TRUE] ELSE staging
    /\ log' = Append(log, Ev("fetch", Cur))
    /\ pc' = "fetch_failed"
    /\ UNCHANGED <<artifact, db, periods, idx, successes, failures,
                   result, loadStatus, cleanup, runs, prev, aside>>

\* Lines 106-116: the failure is recorded, the .csv.gz file unlinked if it
\* exists (a failing unlink is ignored), next period.
\* (Variant that lets the exception out of the batch.)
\* (Variant that tries the download again.)
HandleDownloadErrorRetryMutant(ok) ==
    /\ pc = "fetch_failed"
    /\ ok
    /\ pc' = "fetch"
    /\ UNCHANGED <<artifact, staging, db, periods, idx, successes, failures,
                   result, loadStatus, log, cleanup, runs, prev, aside>>

HandleDownloadErrorMutant(ok) ==
    /\ pc = "fetch_failed"
    /\ ok
    /\ result' = "raised"
    /\ pc' = "idle"
    /\ UNCHANGED <<artifact, staging, db, periods, idx, successes, failures,
                   loadStatus, log, cleanup, runs, prev, aside>>

HandleDownloadError(ok) ==
    /\ pc = "fetch_failed"
    /\ failures' = Append(failures, <<CsvGzName(Cur), "download failed">>)
    /\ IF staging[Cur]
       THEN /\ staging' = IF ok THEN [staging EXCEPT ![Cur] = FALSE] ELSE staging
            /\ cleanup' = IF ok THEN cleanup ELSE cleanup \cup {"staging_failed"}
       ELSE /\ ok
            /\ UNCHANGED <<staging, cleanup>>
    /\ idx' = idx + 1
    /\ pc' = "loop"
    /\ UNCHANGED <<artifact, db, periods, successes, result, loadStatus,
                   log, runs, prev, aside>>

\* Lines 120-122, 37-52: the conversion writes the Parquet file and returns;
\* the success is recorded.  The size of the output depends on the
\* downloaded data only.
ConvertOk(s) ==
    /\ pc = "convert"
    /\ artifact' = [artifact EXCEPT ![Cur] = CompleteFile(Cur, s)]
    /\ successes' = Append(successes, ParquetPath(Cur))
    /\ log' = Append(log, Ev("convert", Cur))
    /\ pc' = "finally"
    /\ UNCHANGED <<staging, db, periods, idx, failures, result, loadStatus,
                   cleanup, runs, prev, aside>>

\* The Parquet file after a failed COPY: untouched (written = 0) or a
\* partial file of the given size.
AfterFailedCopy(f, written) == IF written = 0 THEN f ELSE PartialFile(written)

\* Lines 37-60: the conversion raises.  The except clause unlinks the
\* Parquet file if one exists (a failing unlink is ignored) and re-raises.
\* (Variant whose except clause does not unlink.)
ConvertRaiseMutant(written, ok) ==
    /\ pc = "convert"
    /\ ok
    /\ artifact' = [artifact EXCEPT ![Cur] = AfterFailedCopy(artifact[Cur], written)]
    /\ log' = Append(log, Ev("convert", Cur))
    /\ pc' = "convert_raised"
    /\ UNCHANGED <<staging, db, periods, idx, successes, failures, result,
                   loadStatus, cleanup, runs, prev, aside>>

ConvertRaise(written, ok) ==
    /\ pc = "convert"
    /\ LET f == AfterFailedCopy(artifact[Cur], written)
       IN  IF Exists(f)
           THEN /\ artifact' = [artifact EXCEPT ![Cur] = IF ok THEN NoFile ELSE f]
                /\ cleanup' = cleanup \cup {IF ok THEN "partial_removed" ELSE "partial_failed"}
           ELSE /\ ok
                /\ UNCHANGED <<artifact, cleanup>>
    /\ log' = Append(log, Ev("convert", Cur))
    /\ pc' = "convert_raised"
    /\ UNCHANGED <<staging, db, periods, idx, successes, failures, result,
                   loadStatus, runs, prev, aside>>

\* Lines 123-126: the failure of the conversion is recorded.
\* (Variant that puts the new entry in front of the earlier ones.)
HandleConvertErrorMutant ==
    /\ pc = "convert_raised"
    /\ failures' = <<<<CsvGzName(Cur), "convert failed">>>> \o failures
    /\ pc' = "finally"
    /\ UNCHANGED <<artifact, staging, db, periods, idx, successes, result,
                   loadStatus, log, cleanup, runs, prev, aside>>

HandleConvertError ==
    /\ pc = "convert_raised"
    /\ failures' = Append(failures, <<CsvGzName(Cur), "convert failed">>)
    /\ pc' = "finally"
    /\ UNCHANGED <<artifact, staging, db, periods, idx, successes, result,
                   loadStatus, log, cleanup, runs, prev, aside>>

\* Lines 127-133: the .csv.gz file is unlinked if it exists (a failing
\* unlink is ignored); next period.
\* (Variant without the unlink.)
\* (Variant that lets the exception of a failing unlink out of the batch.)
FinallyCleanupRaiseMutant(ok) ==
    /\ pc = "finally"
    /\ IF staging[Cur] /\ ~ok
       THEN /\ result' = "raised"
            /\ pc' = "idle"
            /\ UNCHANGED <<staging, cleanup, idx>>
       ELSE /\ staging' = [staging EXCEPT ![Cur] = FALSE]
            /\ idx' = idx + 1
            /\ pc' = "loop"
            /\ UNCHANGED <<cleanup, result>>
    /\ UNCHANGED <<artifact, db, periods, successes, failures,
                   loadStatus, log, runs, prev, aside>>

FinallyCleanupMutant(ok) ==
    /\ pc = "finally"
    /\ ok
    /\ idx' = idx + 1
    /\ pc' = "loop"
    /\ UNCHANGED <<artifact, staging, db, periods, successes, failures, result,
                   loadStatus, log, cleanup, runs, prev, aside>>

FinallyCleanup(ok) ==
    /\ pc = "finally"
    /\ IF staging[Cur]
       THEN /\ staging' = IF ok THEN [staging EXCEPT ![Cur] = FALSE] ELSE staging
            /\ cleanup' = IF ok THEN cleanup ELSE cleanup \cup {"staging_failed"}
       ELSE /\ ok
            /\ UNCHANGED <<staging, cleanup>>
    /\ idx' = idx + 1
    /\ pc' = "loop"
    /\ UNCHANGED <<artifact, db, periods, successes, failures, result,
                   loadStatus, log, runs, prev, aside>>

\* Lines 135, 179-191: the loop is over; (successes, failures) is returned
\* and the script goes on to the load.
\* (Variant that ends the script without the load when a period failed.)
ReturnMutant ==
    /\ pc = "loop"
    /\ idx > Len(periods)
    /\ result' = "returned"
    /\ pc' = IF failures = <<>> THEN "load" ELSE "idle"
    /\ UNCHANGED <<artifact, staging, db, periods, idx, successes, failures,
                   loadStatus, log, cleanup, runs, prev, aside>>

Return ==
    /\ pc = "loop"
    /\ idx > Len(periods)
    /\ result' = "returned"
    /\ pc' = "load"
    /\ UNCHANGED <<artifact, staging, db, periods, idx, successes, failures,
                   loadStatus, log, cleanup, runs, prev, aside>>

\* ------------------------------------------------------------- the load
\* Line 152: sorted(fhv_dir.glob("*.parquet")).  The names are
\* fhv_tripdata_YYYY-MM.parquet with a zero-padded month, so the order of
\* the names is the order of the periods.
RECURSIVE sorted(_)
sorted(S) ==
    IF S = {} THEN <<>>
    ELSE LET first == CHOOSE p \in S : \A q \in S : PeriodLeq(p, q)
         IN  <<first>> \o sorted(S \ {first})

parquet_files(fs) == sorted({p \in AllPeriods : Exists(fs[p])})

\* Line 155: the files of more than 1024 bytes, in the order of the names.
RECURSIVE SelectGood(_, _)
SelectGood(fs, ps) ==
    IF ps = <<>> THEN <<>>
    ELSE (IF GoodFile(fs[Head(ps)]) THEN <<Head(ps)>> ELSE <<>>)
         \o SelectGood(fs, Tail(ps))

good_files(fs) == SelectGood(fs, parquet_files(fs))

\* Lines 166-171: read_parquet([...], union_by_name=true): the columns are
\* the union of the files' columns, the rows are the files' rows in the
\* order of the list, NULL in the columns a file does not have.
RECURSIVE UnionRows(_, _, _)
UnionRows(fs, ps, C) ==
    IF ps = <<>> THEN <<>>
    ELSE LET f == fs[Head(ps)]
             widen(r) == [c \in C |-> IF c \in f.cols THEN r[c] ELSE Null]
         IN  [i \in 1..Len(f.rows) |-> widen(f.rows[i])]
             \o UnionRows(fs, Tail(ps), C)

\* (Variant that keeps the columns of the first file only.)
UnionByNameMutant(fs, ps) ==
    LET C == fs[ps[1]].cols
    IN  [cols |-> C, rows |-> UnionRows(fs, ps, C), present |-> TRUE]

UnionByName(fs, ps) ==
    LET C == UNION { fs[ps[i]].cols : i \in 1..Len(ps) }
    IN  [cols |-> C, rows |-> UnionRows(fs, ps, C), present |-> TRUE]

\* read_parquet raises on a file that is not a complete Parquet file.
Readable(fs, ps) == \A i \in 1..Len(ps) : fs[ps[i]].intact

\* Lines 151-160: no file of more than 1024 bytes: RuntimeError, before
\* the database is opened.
\* (Variant that replaces the table by an empty one.)
LoadNoValidMutant ==
    /\ pc = "load"
    /\ good_files(artifact) = <<>>
    /\ loadStatus' = "no_valid"
    /\ db' = [schema |-> TRUE,
              table |-> [cols |-> {}, rows |-> <<>>, present |-> TRUE]]
    /\ pc' = "idle"
    /\ UNCHANGED <<artifact, staging, periods, idx, successes, failures,
                   result, log, cleanup, runs, prev, aside>>

LoadNoValid ==
    /\ pc = "load"
    /\ good_files(artifact) = <<>>
    /\ loadStatus' = "no_valid"
    /\ pc' = "idle"
    /\ UNCHANGED <<artifact, staging, db, periods, idx, successes,
                   failures, result, log, cleanup, runs, prev, aside>>

\* Lines 162-171: the schema is created, then read_parquet raises on a
\* file it cannot read: the statement fails and the table stays.
LoadReadError ==
    /\ pc = "load"
    /\ good_files(artifact) # <<>>
    /\ ~Readable(artifact, good_files(artifact))
    /\ loadStatus' = "read_error"
    /\ db' = [db EXCEPT !.schema = TRUE]
    /\ pc' = "idle"
    /\ UNCHANGED <<artifact, staging, periods, idx, successes, failures,
                   result, log, cleanup, runs, prev, aside>>

\* Lines 162-173: CREATE SCHEMA IF NOT EXISTS, CREATE OR REPLACE TABLE.
\* (Variant that inserts into the table that is there.)
LoadOkMutant ==
    /\ pc = "load"
    /\ good_files(artifact) # <<>>
    /\ Readable(artifact, good_files(artifact))
    /\ loadStatus' = "ok"
    /\ LET new == UnionByName(artifact, good_files(artifact))
           C == db.table.cols \cup new.cols
           widen(r, D) == [c \in C |-> IF c \in D THEN r[c] ELSE Null]
       IN  db' = [schema |-> TRUE,
                  table |-> [cols |-> C,
                             rows |-> [i \in 1..Len(db.table.rows) |->
                                         widen(db.table.rows[i], db.table.cols)]
                                      \o [i \in 1..Len(new.rows) |->
                                         widen(new.rows[i], new.cols)],
                             present |-> TRUE]]
    /\ pc' = "idle"
    /\ UNCHANGED <<artifact, staging, periods, idx, successes, failures,
                   result, log, cleanup, runs, prev, aside>>

LoadOk ==
    /\ pc = "load"
    /\ good_files(artifact) # <<>>
    /\ Readable(artifact, good_files(artifact))
    /\ loadStatus' = "ok"
    /\ db' = [schema |-> TRUE,
              table |-> UnionByName(artifact, good_files(artifact))]
    /\ pc' = "idle"
    /\ UNCHANGED <<artifact, staging, periods, idx, successes, failures,
                   result, log, cleanup, runs, prev, aside>>

\* ------------------------------------------------------- specification
Next ==
    \/ \E s \in StartArgs, e \in EndArgs : CallBatch(s, e)
    \/ SkipValid
    \/ \E ok \in BOOLEAN : PurgeBroken(ok)
    \/ NoPurge
    \/ DownloadOk
    \/ \E opened \in BOOLEAN : DownloadFail(opened)
    \/ \E ok \in BOOLEAN : HandleDownloadError(ok)
    \/ \E s \in Sizes : ConvertOk(s)
    \/ \E written \in {0} \cup Sizes, ok \in BOOLEAN : ConvertRaise(written, ok)
    \/ HandleConvertError
    \/ \E ok \in BOOLEAN : FinallyCleanup(ok)
    \/ Return
    \/ LoadNoValid
    \/ LoadReadError
    \/ LoadOk

Spec == Init /\ [][Next]_vars

\* ------------------------------------------- the same batch, run twice
\* The first of two invocations of the script over one range.
FirstRun(s, e) ==
    /\ runs = 0
    /\ StartBatch(month_range(s[1], s[2], e[1], e[2]))
    /\ runs' = 1
    /\ UNCHANGED prev

\* The second invocation, over the range of the first; prev keeps what the
\* first returned and which Parquet files it left valid.
SecondRun ==
    /\ runs = 1
    /\ StartBatch(periods)
    /\ runs' = 2
    /\ prev' = [periods |-> periods, successes |-> successes,
                valid |-> {p \in AllPeriods : IsValid(artifact[p])},
                set |-> TRUE]

NextTwice ==
    \/ \E s \in StartArgs, e \in EndArgs : FirstRun(s, e)
    \/ SecondRun
    \/ SkipValid
    \/ \E ok \in BOOLEAN : PurgeBroken(ok)
    \/ NoPurge
    \/ DownloadOk
    \/ \E opened \in BOOLEAN : DownloadFail(opened)
    \/ \E ok \in BOOLEAN : HandleDownloadError(ok)
    \/ \E s \in Sizes : ConvertOk(s)
    \/ \E written \in {0} \cup Sizes, ok \in BOOLEAN : ConvertRaise(written, ok)
    \/ HandleConvertError
    \/ \E ok \in BOOLEAN : FinallyCleanup(ok)
    \/ Return
    \/ LoadNoValid
    \/ LoadReadError
    \/ LoadOk

SpecTwice == Init /\ [][NextTwice]_vars

TypeOK ==
    /\ pc \in {"idle", "loop", "fetch", "fetch_failed", "convert",
               "convert_raised", "finally", "load"}
    /\ result \in {"none", "running", "returned", "raised"}
    /\ loadStatus \in {"none", "ok", "no_valid", "read_error"}
    /\ idx \in 1..(MaxUnits + 1)
    /\ runs \in 0..2
    /\ cleanup \subseteq {"purge_failed", "partial_removed", "partial_failed",
                         "staging_failed"}

\* ------------------------------------------- month_range, step by step
\* The arguments of month_range: start and end years of the window, every
\* start month, and the end months 0 and 13 besides the calendar's.
GenYears == 2019..(2019 + YearSpan)
GenStartMonths == 1..12
GenEndMonths == 0..13

InitGen ==
    /\ InitBatch
    /\ wh = NoWh
    /\ ms = NoMs
    /\ gen \in { [sy |-> sy, sm |-> sm, ey |-> ey, em |-> em, y |-> sy, m |-> sm,
                  out |-> <<>>, done |-> FALSE] :
                 sy \in GenYears, sm \in GenStartMonths,
                 ey \in GenYears, em \in GenEndMonths }

\* Line 13: the test of the while loop.
\* (Variant that leaves the end month out.)
GenCondMutant(g) == (g.y < g.ey) \/ (g.y = g.ey /\ g.m < g.em)
GenCond(g) == (g.y < g.ey) \/ (g.y = g.ey /\ g.m <= g.em)

\* Lines 15-18: m += 1, and month 13 becomes month 1 of the next year.
\* (Variant without the carry into the year.)
GenAdvanceMutant(g) == [g EXCEPT !.m = g.m + 1]
GenAdvance(g) ==
    IF g.m + 1 = 13
    THEN [g EXCEPT !.m = 1, !.y = g.y + 1]
    ELSE [g EXCEPT !.m = g.m + 1]

\* Lines 13-18: one turn of the loop: yield (y, m), then advance.
GenYield ==
    /\ ~gen.done
    /\ GenCond(gen)
    /\ gen' = GenAdvance([gen EXCEPT !.out = Append(gen.out, <<gen.y, gen.m>>)])
    /\ UNCHANGED <<batchVars, wh, ms>>

\* Line 13: the test fails; the generator is exhausted.
GenStop ==
    /\ ~gen.done
    /\ ~GenCond(gen)
    /\ gen' = [gen EXCEPT !.done = TRUE]
    /\ UNCHANGED <<batchVars, wh, ms>>

NextGen == GenYield \/ GenStop

SpecGen == InitGen /\ [][NextGen]_vars

\* ------------------------------------------------------------ properties
Has(seq, x) == \E i \in 1..Len(seq) : seq[i] = x
Count(seq, x) == Cardinality({i \in 1..Len(seq) : seq[i] = x})
FailedNames == [i \in 1..Len(failures) |-> failures[i][1]]

\* The last unit the loop took up is finished (the loop is at its top, or
\* the batch has returned).
LastUnitDone ==
    /\ pc \in {"loop", "load", "idle"}
    /\ result \in {"running", "returned"}
    /\ idx > 1
LastUnit == periods[idx - 1]
Skipped(p) == Has(log, Ev("skip", p))
Fetched(p) == Has(log, Ev("fetch", p))
Converted(p) == Has(log, Ev("convert", p))

\* C1: when download_and_convert_fhv_files returns, every period that
\* month_range yielded has exactly one entry, in successes or in failures,
\* so len(successes) + len(failures) is the number of periods (0 for an
\* empty range).
C1_OneEntryPerPeriod ==
    result = "returned" =>
        /\ Len(successes) + Len(failures) = Len(periods)
        /\ \A i \in 1..Len(periods) :
              Count(successes, ParquetPath(periods[i]))
              + Count(FailedNames, CsvGzName(periods[i])) = 1

\* C1 witness: a returned batch over two periods, one success, one failure.
C1_Witness ==
    /\ result = "returned"
    /\ Len(periods) = 2
    /\ Len(successes) = 1
    /\ Len(failures) = 1

\* C2: a failed download or conversion never ends the batch: the call
\* never raises, and when it returns the loop has been through every
\* period: each one was skipped as valid or its download was called.
C2_FailureIsolation ==
    /\ result # "raised"
    /\ result = "returned" =>
          /\ idx = Len(periods) + 1
          /\ \A i \in 1..Len(periods) :
                Skipped(periods[i]) # Fetched(periods[i])

\* C2 witness: the first period failed and the second was still fetched
\* and converted.
C2_Witness ==
    /\ result = "returned"
    /\ Len(periods) = 2
    /\ Len(failures) >= 1
    /\ failures[1][1] = CsvGzName(periods[1])
    /\ Converted(periods[2])

\* C3 (as claimed): no finished unit of the batch, whatever its outcome,
\* has a .csv.gz file on disk.
C3_NoStagingLeft ==
    result \in {"running", "returned"} =>
        \A i \in 1..(idx - 1) : ~staging[periods[i]]

\* C3 (amended): a finished unit that was not skipped has no .csv.gz file
\* on disk unless the unlink of that file raised.
C3_NoStagingUnlessUnlinkFailed ==
    (LastUnitDone /\ staging[LastUnit]) =>
        \/ "staging_failed" \in cleanup
        \/ Skipped(LastUnit)

\* C3 witness: a unit was downloaded and converted and its .csv.gz file is
\* gone.
C3_Witness ==
    /\ LastUnitDone
    /\ Converted(LastUnit)
    /\ ~staging[LastUnit]

\* C4: when a unit is finished its Parquet file is absent or larger than
\* 1024 bytes, never there with 1024 bytes or fewer.
C4_NeverBroken ==
    LastUnitDone => ~IsBroken(artifact[LastUnit])

\* C5 (as claimed): the second run over the same range returns the
\* successes of the first and calls neither download_file nor
\* convert_csv_gz_to_parquet.
C5_SameSuccessesNoCalls ==
    (runs = 2 /\ result = "returned") =>
        /\ successes = prev.successes
        /\ \A i \in 1..Len(log) : log[i][1] \notin {"fetch", "convert"}

\* C5 (amended): on the second run every period whose Parquet file was
\* valid when the first run returned is a success through the skip path,
\* with no download and no conversion, and every other period is fetched
\* again; if the first run left all files valid, the second returns the
\* paths of all the periods and makes no call at all.
C5_ValidOnesSkipped ==
    (runs = 2 /\ result = "returned") =>
        /\ \A i \in 1..Len(periods) :
              LET p == periods[i]
              IN  IF p \in prev.valid
                  THEN /\ Has(successes, ParquetPath(p))
                       /\ Skipped(p) /\ ~Fetched(p) /\ ~Converted(p)
                  ELSE Fetched(p) /\ ~Skipped(p)
        /\ (\A i \in 1..Len(periods) : periods[i] \in prev.valid) =>
              /\ successes = [i \in 1..Len(periods) |-> ParquetPath(periods[i])]
              /\ \A i \in 1..Len(log) : log[i][1] = "skip"

\* C5 witness: a second run over two periods that the first run had both
\* converted, returning the same successes.
C5_Witness ==
    /\ runs = 2
    /\ result = "returned"
    /\ Len(periods) = 2
    /\ \A i \in 1..Len(periods) : periods[i] \in prev.valid
    /\ Len(prev.successes) = 2
    /\ successes = prev.successes

\* The loop is about to classify the Parquet file of the current period.
AtClassify == pc = "loop" /\ idx <= Len(periods)

\* After the classification of a tiny file the download is called, and
\* after a download that returned the conversion is called.
FetchThenConvert ==
    /\ pc = "fetch" =>
          /\ log' = Append(log, Ev("fetch", Cur))
          /\ pc' \in {"convert", "fetch_failed"}
    /\ pc = "convert" =>
          /\ log' = Append(log, Ev("convert", Cur))
          /\ pc' \in {"finally", "convert_raised"}

\* C6 (as claimed): a Parquet file of 1024 bytes or fewer is not taken as
\* a success; it is deleted, then the download is called and, when it
\* returns, the conversion.
C6_BrokenDeletedThenFetched ==
    [][ /\ (AtClassify /\ IsBroken(artifact[Cur])) =>
              /\ pc' = "fetch"
              /\ successes' = successes /\ failures' = failures /\ idx' = idx
              /\ IsAbsent(artifact'[Cur])
        /\ FetchThenConvert ]_vars

\* C6 (amended): a Parquet file of 1024 bytes or fewer is not taken as a
\* success; its deletion is attempted (the file is gone, or the unlink
\* raised and the file is as it was), then the download is called and,
\* when it returns, the conversion.
C6_BrokenPurgedThenFetched ==
    [][ /\ (AtClassify /\ IsBroken(artifact[Cur])) =>
              /\ pc' = "fetch"
              /\ successes' = successes /\ failures' = failures /\ idx' = idx
              /\ \/ IsAbsent(artifact'[Cur])
                 \/ artifact' = artifact /\ "purge_failed" \in cleanup'
        /\ FetchThenConvert ]_vars

\* C6 witness: the tiny file of the current period has just been deleted
\* and the download is next.
C6_Witness ==
    /\ pc = "fetch"
    /\ Len(log) > 0
    /\ log[Len(log)] = Ev("purge", Cur)
    /\ IsAbsent(artifact[Cur])
    /\ cleanup = {}

ValidSet(fs) == {p \in AllPeriods : IsValid(fs[p])}

\* C8: a load that finds no valid Parquet file fails with the
\* no-valid-files error and leaves the database, schema and table, as it
\* was.
C8_EmptyLoadFails ==
    [][ (pc = "load" /\ ValidSet(artifact) = {}) =>
            /\ loadStatus' = "no_valid"
            /\ db' = db ]_vars

\* C8 witness: the load has failed for want of valid files and the table of
\* an earlier load is still there.
C8_Witness ==
    /\ pc = "idle"
    /\ loadStatus = "no_valid"
    /\ db.table = OldTable
    /\ Len(failures) = 2

\* The table t holds exactly the rows of the valid files of fs, one file
\* after the other in the order of the periods.
HoldsValidRows(t, fs) ==
    /\ t.present
    /\ Len(t.rows) = Cardinality(ValidSet(fs))
    /\ \A p \in ValidSet(fs) :
          \E i \in 1..Len(t.rows) :
              \A c \in fs[p].cols : t.rows[i][c] = fs[p].rows[1][c]
    /\ \A i, j \in 1..Len(t.rows) : i < j => t.rows[i]["a"] < t.rows[j]["a"]

\* C9: after a load that succeeded the table holds the rows of the files
\* that are larger than 1024 bytes, in the order of their names, and
\* nothing else: nothing of the table that was there before, nothing of a
\* smaller file.
C9_TableReplaced ==
    [][ (pc = "load" /\ loadStatus' = "ok") =>
            HoldsValidRows(db'.table, artifact) ]_vars

\* C9 witness: a load succeeded over a directory with a valid and a tiny
\* file.
C9_Witness ==
    /\ pc = "idle"
    /\ loadStatus = "ok"
    /\ Len(db.table.rows) = 1
    /\ \E p \in AllPeriods : IsBroken(artifact[p])

\* The period whose file the row r comes from (every file has column a).
Origin(r) == CHOOSE p \in AllPeriods : Val(p) = r["a"]

\* C10: a load over valid files that can be read succeeds whatever their
\* columns; the columns of the table are the union of the files' columns,
\* and a row has the values of its file and NULL in the columns its file
\* does not have.
C10_UnionByName ==
    [][ (/\ pc = "load"
         /\ ValidSet(artifact) # {}
         /\ \A p \in ValidSet(artifact) : artifact[p].intact) =>
            /\ loadStatus' = "ok"
            /\ db'.table.cols = UNION { artifact[p].cols : p \in ValidSet(artifact) }
            /\ \A i \in 1..Len(db'.table.rows) :
                  LET r == db'.table.rows[i]
                      f == artifact[Origin(r)]
                  IN  /\ Origin(r) \in ValidSet(artifact)
                      /\ DOMAIN r = db'.table.cols
                      /\ \A c \in db'.table.cols :
                            r[c] = IF c \in f.cols THEN f.rows[1][c] ELSE Null ]_vars

\* C10 witness: a loaded table with the columns a, b and c, a row with
\* NULL in c and a row with NULL in b.
C10_Witness ==
    /\ loadStatus = "ok"
    /\ db.table.cols = {"a", "b", "c"}
    /\ \E i \in 1..Len(db.table.rows) :
          db.table.rows[i]["c"] = Null /\ db.table.rows[i]["b"] # Null
    /\ \E i \in 1..Len(db.table.rows) :
          db.table.rows[i]["b"] = Null /\ db.table.rows[i]["c"] # Null

\* ------------------------------------------------------ period enumeration
PeriodLt(p, q) == PeriodLeq(p, q) /\ p # q
GenStart == <<gen.sy, gen.sm>>
GenEnd == <<gen.ey, gen.em>>

\* C11: for start and end months in 1..12, month_range yields exactly the
\* periods p with start <= p <= end, each once, in strictly ascending
\* order, month 12 being followed by month 1 of the next year, and yields
\* nothing when start > end; (2019,11)..(2020,2) yields (2019,11),
\* (2019,12), (2020,1), (2020,2).
C11_MonthRange ==
    (gen.sm \in 1..12 /\ gen.em \in 1..12) =>
        /\ \A i \in 1..Len(gen.out) :
              /\ gen.out[i][2] \in 1..12
              /\ PeriodLeq(GenStart, gen.out[i])
              /\ PeriodLeq(gen.out[i], GenEnd)
        /\ \A i \in 1..(Len(gen.out) - 1) :
              /\ PeriodLt(gen.out[i], gen.out[i + 1])
              /\ gen.out[i][2] = 12 => gen.out[i + 1] = <<gen.out[i][1] + 1, 1>>
              /\ gen.out[i][2] # 12 =>
                    gen.out[i + 1] = <<gen.out[i][1], gen.out[i][2] + 1>>
        /\ gen.done =>
              /\ \A y \in GenYears, m \in 1..12 :
                    (PeriodLeq(GenStart, <<y, m>>) /\ PeriodLeq(<<y, m>>, GenEnd))
                        => Has(gen.out, <<y, m>>)
              /\ ~PeriodLeq(GenStart, GenEnd) => gen.out = <<>>
              /\ (GenStart = <<2019, 11>> /\ GenEnd = <<2020, 2>>) =>
                    gen.out = << <<2019, 11>>, <<2019, 12>>, <<2020, 1>>, <<2020, 2>> >>
              /\ gen.out = month_range(gen.sy, gen.sm, gen.ey, gen.em)

\* C11 witness: the enumeration of (2019,11)..(2020,2) has finished, having
\* carried month 12 into the next year.
C11_Witness ==
    /\ gen.done
    /\ GenStart = <<2019, 11>>
    /\ GenEnd = <<2020, 2>>
    /\ Len(gen.out) = 4

\* C18: for a start month in 1..12 and any end year and end month, every
\* period month_range yields has its month in 1..12, and the number of
\* periods yielded is the number of months advanced from the start, which
\* never passes the end year: the enumeration is finite.
C18_EnumerationFinite ==
    (gen.sm \in 1..12) =>
        /\ \A i \in 1..Len(gen.out) : gen.out[i][2] \in 1..12
        /\ gen.m \in 1..12
        /\ Len(gen.out) = 12 * (gen.y - gen.sy) + (gen.m - gen.sm)
        /\ Len(gen.out) > 0 => gen.out[Len(gen.out)][1] <= gen.ey
        /\ Len(gen.out) <= (IF gen.ey >= gen.sy THEN 12 * (gen.ey - gen.sy + 1) ELSE 0)

\* C18 witness: an enumeration whose end month is not a calendar month has
\* finished after passing a year's end.
C18_Witness ==
    /\ gen.done
    /\ gen.em \notin 1..12
    /\ \E i \in 1..(Len(gen.out) - 1) :
          gen.out[i][2] = 12 /\ gen.out[i + 1][2] = 1

\* ------------------------------------------------------ order of failures
\* The period a failure entry is about.
FailedPeriod(e) == <<e[1][2], e[1][3]>>

\* C12: the failures list is in strictly ascending period order: of any two
\* entries the earlier one is about the earlier period, and no period has
\* two entries.
C12_FailuresAscending ==
    \A i, j \in 1..Len(failures) :
        i < j => PeriodLt(FailedPeriod(failures[i]), FailedPeriod(failures[j]))

\* C12 witness: a returned batch with two failures, a failed download and a
\* failed conversion.
C12_Witness ==
    /\ result = "returned"
    /\ Len(failures) = 2
    /\ failures[1][2] # failures[2][2]

\* ---------------------------------------------------------- resumable skip
\* C13: when the Parquet file of the period at hand is larger than 1024
\* bytes at classification, the step taken records its path as a success
\* and moves to the next period: neither the download nor the conversion is
\* called for it, nothing is recorded as failed, and no file is created,
\* modified or deleted.
C13_ResumableSkip ==
    [][ (AtClassify /\ IsValid(artifact[Cur])) =>
            /\ successes' = Append(successes, ParquetPath(Cur))
            /\ failures' = failures
            /\ idx' = idx + 1
            /\ pc' = "loop"
            /\ log' = Append(log, Ev("skip", Cur))
            /\ artifact' = artifact
            /\ staging' = staging
            /\ db' = db ]_vars

\* C13 witness: a period whose large Parquet file was there before the run
\* has been skipped: it is a success of the run, and the run called neither
\* the download nor the conversion for it.
C13_Witness ==
    \E p \in AllPeriods :
        /\ Skipped(p)
        /\ ~Fetched(p)
        /\ ~Converted(p)
        /\ IsValid(artifact[p])
        /\ Has(successes, ParquetPath(p))
        /\ ~staging[p]

\* ------------------------------------------------------- order of the calls
\* The period a call in the log is about, and the periods the loop has
\* taken up so far.
CallPeriod(e) == <<e[2], e[3]>>
TakenUp == { periods[k] : k \in { k \in 1..Len(periods) : k <= idx } }
InUnit == pc \in {"fetch", "fetch_failed", "convert", "convert_raised", "finally"}

\* C14: in one run the download is called at most once per period and the
\* conversion at most once; a conversion is called right after the
\* download of the same period returned, never for a period whose download
\* failed; and the calls of a period come after every call of the periods
\* before it, whose units, entry included, are finished when the next unit
\* starts.
C14_ProtocolOrder ==
    /\ \A p \in AllPeriods :
          /\ Count(log, Ev("fetch", p)) <= 1
          /\ Count(log, Ev("convert", p)) <= 1
          /\ Converted(p) => ~Has(failures, <<CsvGzName(p), "download failed">>)
    /\ \A i \in 1..Len(log) :
          /\ CallPeriod(log[i]) \in TakenUp
          /\ log[i][1] = "convert" =>
                /\ i > 1
                /\ log[i - 1] = Ev("fetch", CallPeriod(log[i]))
    /\ \A i, j \in 1..Len(log) :
          i < j => PeriodLeq(CallPeriod(log[i]), CallPeriod(log[j]))
    /\ InUnit =>
          /\ idx <= Len(periods)
          /\ \A i \in 1..Len(log) :
                log[i][1] \in {"fetch", "convert"} /\ CallPeriod(log[i]) # Cur =>
                    PeriodLt(CallPeriod(log[i]), Cur)
          /\ Len(successes) + Len(failures) \in {idx - 1, idx}
    /\ pc = "fetch" => Len(successes) + Len(failures) = idx - 1

\* C14 witness: a returned batch that downloaded and converted one period
\* and then called the download, which failed, for a later one.
C14_Witness ==
    /\ result = "returned"
    /\ \E p, q \in AllPeriods :
          /\ PeriodLt(p, q)
          /\ Fetched(p) /\ Converted(p)
          /\ Fetched(q) /\ ~Converted(q)
          /\ Has(failures, <<CsvGzName(q), "download failed">>)

\* ------------------------------------------------------ best-effort unlink
UnlinkFailures == {"purge_failed", "partial_failed", "staging_failed"}

\* C15: at each point where the batch or the conversion's except clause
\* unlinks a file, the step goes on as it does when the unlink works,
\* whether the unlink raised or not: the batch never ends with an
\* exception, a tiny file's period goes on to the download, a failed
\* download or conversion is recorded in failures exactly once, and the
\* unlink of the .csv.gz file changes neither list before the next period.
C15_UnlinkErrorsSwallowed ==
    [][ /\ result' # "raised"
        /\ (AtClassify /\ IsBroken(artifact[Cur])) =>
              /\ pc' = "fetch"
              /\ idx' = idx
              /\ successes' = successes
              /\ failures' = failures
        /\ pc = "fetch_failed" =>
              /\ pc' = "loop"
              /\ idx' = idx + 1
              /\ successes' = successes
              /\ failures' = Append(failures, <<CsvGzName(Cur), "download failed">>)
        /\ pc = "convert" =>
              /\ pc' \in {"finally", "convert_raised"}
              /\ failures' = failures
              /\ pc' = "convert_raised" => successes' = successes
        /\ pc = "convert_raised" =>
              /\ pc' = "finally"
              /\ successes' = successes
              /\ failures' = Append(failures, <<CsvGzName(Cur), "convert failed">>)
        /\ pc = "finally" =>
              /\ pc' = "loop"
              /\ idx' = idx + 1
              /\ successes' = successes
              /\ failures' = failures ]_vars

\* C15 witness: a batch has returned whose last unit saw all three unlinks
\* raise (the tiny Parquet file, the partial Parquet file, the .csv.gz
\* file) and is recorded as a failed conversion.
C15_Witness ==
    /\ result = "returned"
    /\ pc = "load"
    /\ UnlinkFailures \subseteq cleanup
    /\ Has(failures, <<CsvGzName(LastUnit), "convert failed">>)
    /\ ~Has(successes, ParquetPath(LastUnit))

\* ------------------------------------------------- the script as a whole
\* How an invocation of the script ends: the script has no try/except of
\* its own, so it ends in error when the batch or the load raises, and
\* normally when the load returns.
ExitStatus ==
    IF pc # "idle" \/ result = "none" THEN "running"
    ELSE IF result = "raised" THEN "error"
    ELSE IF loadStatus = "ok" THEN "ok"
    ELSE "error"
LoadFailed == loadStatus \in {"no_valid", "read_error"}

\* C16: when the batch has returned the script goes on to the load,
\* whatever the number of failures; the load runs once per invocation, and
\* the invocation ends in error exactly when the load failed.
C16_LoadOnceAfterBatch ==
    [][ /\ (pc = "loop" /\ idx > Len(periods)) =>
              /\ pc' = "load"
              /\ result' = "returned"
              /\ loadStatus' = "none"
        /\ pc = "load" =>
              /\ result = "returned"
              /\ loadStatus = "none"
              /\ pc' = "idle"
              /\ loadStatus' \in {"ok", "no_valid", "read_error"}
        /\ loadStatus' # loadStatus => (pc = "load" \/ loadStatus' = "none")
        /\ (pc # "idle" /\ pc' = "idle") =>
              /\ pc = "load"
              /\ ExitStatus' \in {"ok", "error"}
              /\ ExitStatus' = "error" <=> LoadFailed'
              /\ ExitStatus' = "ok" <=> loadStatus' = "ok" ]_vars

\* C16 witness: an invocation in which every period failed has ended
\* normally, the load having built the table from files of earlier runs.
C16_Witness ==
    /\ pc = "idle"
    /\ result = "returned"
    /\ Len(periods) >= 1
    /\ Len(failures) = Len(periods)
    /\ loadStatus = "ok"
    /\ ExitStatus = "ok"

\* ------------------------------------------- the files of failed periods
\* The unit whose deletions the variable cleanup tells of.
IsRecentUnit(p) ==
    \/ InUnit /\ p = Cur
    \/ pc \in {"loop", "load", "idle"} /\ idx > 1 /\ p = periods[idx - 1]

WhModes == {"dev", "prod"}
WhTaxis == {"yellow", "green"}
WhMonths == {1, 6, 12}

InitWh ==
    /\ InitBatch
    /\ gen = NoGen
    /\ ms = NoMs
    /\ wh \in { [script |-> s, mode |-> mo, taxi |-> t, year |-> 2024,
                 start_month |-> a, end_month |-> b,
                 pc |-> "parsed", calls |-> <<>>] :
                s \in {"m3", "m4"}, mo \in WhModes, t \in WhTaxis \cup {"none"},
                a \in WhMonths, b \in WhMonths }
    /\ wh.taxi = "none" <=> wh.script = "m3"

\* A call of one of the three loads with the arguments main passes.
WhCall(name) ==
    IF wh.script = "m4"
    THEN <<name, wh.taxi, wh.mode, wh.year, wh.start_month, wh.end_month>>
    ELSE <<name, wh.mode, wh.year, wh.start_month, wh.end_month>>

\* run_to_gcs is called; it returns or raises (main catches nothing).
RunToGcs(ok) ==
    /\ wh.pc = "parsed"
    /\ wh' = [wh EXCEPT !.calls = Append(wh.calls, WhCall("run_to_gcs")),
                        !.pc = IF ok THEN "gcs_returned" ELSE "gcs_raised"]
    /\ UNCHANGED <<batchVars, gen, ms>>

\* if args.mode == "dev": run_to_duckdb(...)
\* (Variant without the test of the mode.)
RunToDuckdbMutant(ok) ==
    /\ wh.pc = "gcs_returned"
    /\ wh' = [wh EXCEPT !.calls = Append(wh.calls, WhCall("run_to_duckdb")),
                        !.pc = IF ok THEN "done" ELSE "db_raised"]
    /\ UNCHANGED <<batchVars, gen, ms>>

RunToDuckdb(ok) ==
    /\ wh.pc = "gcs_returned"
    /\ wh.mode = "dev"
    /\ wh' = [wh EXCEPT !.calls = Append(wh.calls, WhCall("run_to_duckdb")),
                        !.pc = IF ok THEN "done" ELSE "db_raised"]
    /\ UNCHANGED <<batchVars, gen, ms>>

\* else: run_to_bigquery(...)
RunToBigquery(ok) ==
    /\ wh.pc = "gcs_returned"
    /\ wh.mode # "dev"
    /\ wh' = [wh EXCEPT !.calls = Append(wh.calls, WhCall("run_to_bigquery")),
                        !.pc = IF ok THEN "done" ELSE "db_raised"]
    /\ UNCHANGED <<batchVars, gen, ms>>

NextWh ==
    \/ \E ok \in BOOLEAN : RunToGcs(ok)
    \/ \E ok \in BOOLEAN : RunToDuckdb(ok)
    \/ \E ok \in BOOLEAN : RunToBigquery(ok)

SpecWh == InitWh /\ [][NextWh]_vars

WhCalled(name) == \E i \in 1..Len(wh.calls) : wh.calls[i][1] = name

\* C19: in both scripts main calls run_to_gcs first and then, when it
\* returned, exactly one database load, run_to_duckdb if the mode is dev
\* and run_to_bigquery otherwise; never both; and no database load when
\* run_to_gcs raised.
C19_GcsThenOneLoad ==
    /\ Len(wh.calls) <= 2
    /\ Len(wh.calls) >= 1 => wh.calls[1] = WhCall("run_to_gcs")
    /\ Len(wh.calls) = 2 =>
          wh.calls[2] = WhCall(IF wh.mode = "dev" THEN "run_to_duckdb"
                                                   ELSE "run_to_bigquery")
    /\ ~(WhCalled("run_to_duckdb") /\ WhCalled("run_to_bigquery"))
    /\ wh.pc = "parsed" => wh.calls = <<>>
    /\ wh.pc \in {"gcs_returned", "gcs_raised"} => Len(wh.calls) = 1
    /\ wh.pc \in {"done", "db_raised"} => Len(wh.calls) = 2

\* C19 witness: the Module 4 script has ended in prod mode, having called
\* run_to_gcs and then run_to_bigquery.
C19_Witness ==
    /\ wh.script = "m4"
    /\ wh.mode = "prod"
    /\ wh.pc = "done"
    /\ wh.calls[1][1] = "run_to_gcs"
    /\ wh.calls[2][1] = "run_to_bigquery"

\* -------------------------------------------- month_starts (trips.py)
\* A datetime is <<year, month, day, hour>>; datetimes compare as Python
\* compares them, field by field.
MsYears == 2024..(2024 + YearSpan)
MsMonths == {1, 2, 12}
MsDays == {1, 15, 31}
MsHours == {0, 12}
Datetimes == { <<y, m, d, h>> : y \in MsYears, m \in MsMonths, d \in MsDays, h \in MsHours }

DtLt(a, b) ==
    \/ a[1] < b[1]
    \/ a[1] = b[1] /\ a[2] < b[2]
    \/ a[1] = b[1] /\ a[2] = b[2] /\ a[3] < b[3]
    \/ a[1] = b[1] /\ a[2] = b[2] /\ a[3] = b[3] /\ a[4] < b[4]

\* start_date.replace(day=1): the day becomes 1, the time of day stays.
ReplaceDay1(d) == <<d[1], d[2], 1, d[4]>>

\* current + relativedelta(months=1), for a datetime on day 1.
AddMonth(d) == IF d[2] = 12 THEN <<d[1] + 1, 1, d[3], d[4]>>
                            ELSE <<d[1], d[2] + 1, d[3], d[4]>>

InitMs ==
    /\ InitBatch
    /\ gen = NoGen
    /\ wh = NoWh
    /\ ms \in { [start |-> s, end |-> e, current |-> ReplaceDay1(s),
                 results |-> <<>>, pc |-> "loop"] :
                s \in Datetimes, e \in Datetimes }

\* Line 86: while current < end_date.
\* (Variant that lets the end date itself in.)
MsCondMutant(c, e) == DtLt(c, e) \/ c = e
MsCond(c, e) == DtLt(c, e)

\* Lines 86-88: one turn of the loop.
MsAppend ==
    /\ ms.pc = "loop"
    /\ MsCond(ms.current, ms.end)
    /\ ms' = [ms EXCEPT !.results = Append(ms.results, ms.current),
                        !.current = AddMonth(ms.current)]
    /\ UNCHANGED <<batchVars, gen, wh>>

\* Lines 86, 89: the test fails; results is returned.
MsReturn ==
    /\ ms.pc = "loop"
    /\ ~MsCond(ms.current, ms.end)
    /\ ms' = [ms EXCEPT !.pc = "returned"]
    /\ UNCHANGED <<batchVars, gen, wh>>

NextMs == MsAppend \/ MsReturn

SpecMs == InitMs /\ [][NextMs]_vars

\* The number of months from year 0 to the month of a datetime.
MonthIndex(d) == 12 * d[1] + d[2]

\* C20: month_starts returns, ascending and one month apart, exactly the
\* datetimes on day 1 (at start_date's time of day) from start_date's
\* month on that are strictly earlier than end_date: the month of an
\* end_date that is the first of a month at 00:00 is left out, and the
\* result is empty when start_date moved to day 1 is not earlier than
\* end_date.
C20_MonthStarts ==
    ms.pc # "none" =>
        /\ \A i \in 1..Len(ms.results) :
              /\ ms.results[i][3] = 1
              /\ ms.results[i][4] = ms.start[4]
              /\ DtLt(ms.results[i], ms.end)
              /\ MonthIndex(ms.results[i]) = MonthIndex(ms.start) + i - 1
              /\ ms.results[i][2] \in 1..12
        /\ \A i \in 1..(Len(ms.results) - 1) :
              DtLt(ms.results[i], ms.results[i + 1])
        /\ ms.pc = "returned" =>
              /\ \A y \in MsYears, m \in 1..12 :
                    LET d == <<y, m, 1, ms.start[4]>>
                    IN  (MonthIndex(d) >= MonthIndex(ms.start) /\ DtLt(d, ms.end))
                            => Has(ms.results, d)
              /\ (ms.end[3] = 1 /\ ms.end[4] = 0) =>
                    \A i \in 1..Len(ms.results) :
                        MonthIndex(ms.results[i]) < MonthIndex(ms.end)
              /\ ~DtLt(ReplaceDay1(ms.start), ms.end) => ms.results = <<>>

\* C20 witness: for a start in the middle of December and an end on the
\* first of February at 00:00, the first of December and the first of
\* January have been returned, and February has not.
C20_Witness ==
    /\ ms.pc = "returned"
    /\ ms.start = <<2024, 12, 15, 0>>
    /\ ms.end = <<2025, 2, 1, 0>>
    /\ ms.results = << <<2024, 12, 1, 0>>, <<2025, 1, 1, 0>> >>

====
